---- MODULE Spec2Model ----
(***************************************************************************)
(* The user resource service of rust-api-crud: the axum handlers of        *)
(* src/handlers/user_handlers.rs running as concurrent tasks against the   *)
(* users relation through one shared connection pool.                      *)
(***************************************************************************)
EXTENDS Integers, FiniteSets, Sequences, TLC

\* ------------------------------------------------------------------ bounds
\* Request tasks the runtime can run at once.
NumTasks == 3
\* Identifiers the store's generator can hand out before the model stops creating.
MaxIds == 2
\* Last value of the store's clock.
MaxTime == 1

Tasks == 1 .. NumTasks
\* The tasks that serve an open-ended stream of arbitrary requests.
Clients == {1, 2}
Ids == 1 .. MaxIds
Times == 0 .. MaxTime
Names == {"Alice", "Bob"}
Emails == {"alice@example.com", "bob@example.com"}

\* Option::None.
None == "None"
\* The values an update request carries for each optional field.
PatchNames == {None, "Bob"}
PatchEmails == {None, "bob@example.com"}

\* ------------------------------------------------------- program constants
OK == 200
CREATED == 201
NO_CONTENT == 204
NOT_FOUND == 404
CONFLICT == 409
INTERNAL_SERVER_ERROR == 500
NOT_IMPLEMENTED == 501
SERVICE_UNAVAILABLE == 503
\* PgPoolOptions::max_connections
MaxConnections == 5
\* Pagination: default_page and default_per_page
default_page == 1
default_per_page == 10

\* Every task the runtime can hold: enough to borrow every connection of the pool and
\* leave one request waiting.
Workers == 1 .. MaxConnections + 1
\* The page and per_page parameters a list request carries in its query: an Option,
\* empty when the query leaves the parameter out.
QueryPages == {<<>>, <<1>>, <<2>>}
QueryPerPages == {<<>>, <<1>>, <<10>>}

VARIABLES
    users,    \* the rows of the users relation
    nextId,   \* the store's identifier generator: the next identifier it hands out
    now,      \* the store's clock
    pc,       \* each task's position in its handler
    req,      \* each task's request: operation, path identifier, payload
    result,   \* each task's statement outcome (the handler's Result value)
    resp,     \* each task's response: status and body
    pool      \* the connection pool: connections open (size) and idle among them

vars == <<users, nextId, now, pc, req, result, resp, pool>>

\* ---------------------------------------------------------------- the model
\* models::User
User == [id : Ids, name : Names, email : Emails, created_at : Times, updated_at : Times]

\* No user: the empty response body, and the row of a statement that returns none.
NoUser == [id |-> 0, name |-> None, email |-> None, created_at |-> 0, updated_at |-> 0]
NoReq == [op |-> None, id |-> 0, name |-> None, email |-> None, page |-> 0, per_page |-> 0]
NoResult == [ok |-> FALSE, db |-> FALSE, unique |-> FALSE, timed_out |-> FALSE,
    rows |-> 0, row |-> NoUser]
\* No list: the list fields of a response that is no UserListResponse.
NoList == [users |-> <<>>, total |-> 0, page |-> 0, per_page |-> 0, total_pages |-> 0]
NoResp == [status |-> 0, body |-> NoUser, list |-> NoList]

\* Ok(value) of a statement: the rows it affected and the row it returned.
OkResult(rows, row) == [ok |-> TRUE, db |-> FALSE, unique |-> FALSE, timed_out |-> FALSE,
    rows |-> rows, row |-> row]
\* sqlx::Error::Database whose is_unique_violation() is true.
ErrUniqueViolation == [ok |-> FALSE, db |-> TRUE, unique |-> TRUE, timed_out |-> FALSE,
    rows |-> 0, row |-> NoUser]
\* sqlx::Error::Database of any other kind.
ErrDatabase == [ok |-> FALSE, db |-> TRUE, unique |-> FALSE, timed_out |-> FALSE,
    rows |-> 0, row |-> NoUser]
\* sqlx::Error::PoolTimedOut: no connection within the acquire timeout.
ErrPoolTimedOut == [ok |-> FALSE, db |-> FALSE, unique |-> FALSE, timed_out |-> TRUE,
    rows |-> 0, row |-> NoUser]
\* Any other sqlx::Error that is no database error (Io, Protocol, ...).
ErrOther == [ok |-> FALSE, db |-> FALSE, unique |-> FALSE, timed_out |-> FALSE,
    rows |-> 0, row |-> NoUser]

\* Connections borrowed from the pool: one per task between acquire and release.
InUse == Cardinality({t \in Workers : pc[t] = "holding"})

\* Mutant: a pool that opens connections without limit.
CanAcquire_Unbounded(p) == p.idle >= 0

\* The pool can hand out a connection: one is idle, or one more may be opened.
CanAcquire(p) == p.idle > 0 \/ p.size < MaxConnections

\* Mutant: an acquire that leaves the connection it hands out among the idle ones.
Acquired_StillIdle(p) ==
    IF p.idle > 0 THEN p ELSE [size |-> p.size + 1, idle |-> 0]

\* The pool after an acquire: an idle connection is taken, else a new one is opened.
Acquired(p) ==
    IF p.idle > 0 THEN [size |-> p.size, idle |-> p.idle - 1]
    ELSE [size |-> p.size + 1, idle |-> 0]

\* Mutant: a release that closes the connection instead of keeping it idle.
Released_Closed(p) == [size |-> p.size - 1, idle |-> p.idle]

\* Mutant: a release that loses the connection: still open, never idle again.
Released_Leaked(p) == [size |-> p.size, idle |-> p.idle]

\* The pool after a release: the connection is idle again.
Released(p) == [size |-> p.size, idle |-> p.idle + 1]

\* get_database_statistics: (size, num_idle, max_connections).
get_database_statistics == <<pool.size, pool.idle, MaxConnections>>

\* The users relation: the row an INSERT of (name, email) builds, the identifier and
\* both timestamps filled in by the column defaults.
NewRow(name, email) ==
    [id |-> nextId, name |-> name, email |-> email, created_at |-> now, updated_at |-> now]

\* Mutant: the relation without its unique constraint on email.
UniqueViolation_IdOnly(row) == \E u \in users : u.id = row.id

\* The users relation: the unique constraints on id and on email.
UniqueViolation(row) == \E u \in users : u.email = row.email \/ u.id = row.id

\* Mutant: the INSERT with its two parameters bound in the wrong order.
InsertStmt_Swapped(payload) == NewRow(payload.email, payload.name)

\* create_user: INSERT INTO users (name, email) VALUES ($1, $2) RETURNING ...
InsertStmt(payload) == NewRow(payload.name, payload.email)

\* Mutant: map_err without the uniqueness branch.
CreateStatus_NoConflict(r) == IF r.ok THEN CREATED ELSE INTERNAL_SERVER_ERROR

\* Mutant: map_err that takes every database error for a conflict.
CreateStatus_AnyDatabaseError(r) ==
    IF r.ok THEN CREATED
    ELSE IF r.db THEN CONFLICT
    ELSE INTERNAL_SERVER_ERROR

\* Mutant: map_err that takes every error for a conflict.
CreateStatus_EveryError(r) == IF r.ok THEN CREATED ELSE CONFLICT

\* create_user: the map_err closure and the Ok return.
CreateStatus(r) ==
    IF r.ok THEN CREATED
    ELSE IF r.db /\ r.unique THEN CONFLICT
    ELSE INTERNAL_SERVER_ERROR

\* Mutant: the DELETE without its WHERE clause once the identifier is stored.
DeleteStmt_Unfiltered(id) == IF \E u \in users : u.id = id THEN users ELSE {}

\* delete_user: DELETE FROM users WHERE id = $1, the rows it matches.
DeleteStmt(id) == {u \in users : u.id = id}

\* Mutant: the rows_affected test turned around.
DeleteStatus_Inverted(r) ==
    IF r.ok THEN (IF r.rows = 0 THEN NO_CONTENT ELSE NOT_FOUND)
    ELSE INTERNAL_SERVER_ERROR

\* Mutant: a match that takes every statement that ran for a removal.
DeleteStatus_IgnoresRows(r) == IF r.ok THEN NO_CONTENT ELSE INTERNAL_SERVER_ERROR

\* delete_user: the match on the statement's result.
DeleteStatus(r) ==
    IF r.ok THEN (IF r.rows = 0 THEN NOT_FOUND ELSE NO_CONTENT)
    ELSE INTERNAL_SERVER_ERROR

\* Mutant: db_health answering a failed check like a user handler does.
HealthStatus_500(r) == IF r.ok THEN OK ELSE INTERNAL_SERVER_ERROR

\* db_health: the match on health_check's result.
HealthStatus(r) == IF r.ok THEN OK ELSE SERVICE_UNAVAILABLE

\* The status the handler of op makes of its statement's outcome.
StatusOf(op, r) ==
    CASE op = "create" -> CreateStatus(r)
      [] op = "delete" -> DeleteStatus(r)
      [] op = "db_health" -> HealthStatus(r)

\* Pagination: a query parameter, or its serde default when the query has none.
OrDefault(given, default) == IF given = <<>> THEN default ELSE given[1]

\* Creates begun and not yet executed: each may still need an identifier.
PendingCreates ==
    Cardinality({t \in Workers : pc[t] \in {"waiting", "holding"} /\ req[t].op = "create"})

Init ==
    /\ users = {}
    /\ nextId = 1
    /\ now = 0
    /\ pc = [t \in Workers |-> "idle"]
    /\ req = [t \in Workers |-> NoReq]
    /\ result = [t \in Workers |-> NoResult]
    /\ resp = [t \in Workers |-> NoResp]
    /\ pool = [size |-> 1, idle |-> 1]

\* A handler reaches its statement on the pool: it gets a connection at once when
\* the pool can hand one out, and waits for one otherwise.
Borrow(t) ==
    IF CanAcquire(pool)
    THEN pc' = [pc EXCEPT ![t] = "holding"] /\ pool' = Acquired(pool)
    ELSE pc' = [pc EXCEPT ![t] = "waiting"] /\ UNCHANGED pool

\* The statement of task t is over: its connection goes back to the pool and the
\* handler returns the response it makes of outcome r.
Reply(t, r) ==
    /\ result' = [result EXCEPT ![t] = r]
    /\ resp' = [resp EXCEPT ![t] =
          [status |-> StatusOf(req[t].op, r), body |-> r.row, list |-> NoList]]
    /\ pc' = [pc EXCEPT ![t] = "done"]
    /\ pool' = Released(pool)

\* POST /users: the handler is entered; fetch_one borrows a connection of the pool
\* for the INSERT.
CreateUser(t, name, email) ==
    /\ pc[t] = "idle"
    /\ (nextId - 1) + PendingCreates < MaxIds
    /\ Borrow(t)
    /\ req' = [req EXCEPT ![t] = [op |-> "create", id |-> 0, name |-> name, email |-> email,
                                 page |-> 0, per_page |-> 0]]
    /\ UNCHANGED <<users, nextId, now, result, resp>>

\* DELETE /users/:id: the handler is entered; execute borrows a connection of the
\* pool for the DELETE.
DeleteUser(t, id) ==
    /\ pc[t] = "idle"
    /\ Borrow(t)
    /\ req' = [req EXCEPT ![t] = [op |-> "delete", id |-> id, name |-> None, email |-> None,
                                 page |-> 0, per_page |-> 0]]
    /\ UNCHANGED <<users, nextId, now, result, resp>>

\* GET /users/:id: the handler returns at once, without a statement.
GetUser(t, id) ==
    /\ pc[t] = "idle"
    /\ pc' = [pc EXCEPT ![t] = "done"]
    /\ req' = [req EXCEPT ![t] = [op |-> "get", id |-> id, name |-> None, email |-> None,
                                 page |-> 0, per_page |-> 0]]
    /\ resp' = [resp EXCEPT ![t] = [status |-> NOT_IMPLEMENTED, body |-> NoUser, list |-> NoList]]
    /\ UNCHANGED <<users, nextId, now, result, pool>>

\* PUT /users/:id: the handler returns at once, without a statement.
UpdateUser(t, id, name, email) ==
    /\ pc[t] = "idle"
    /\ pc' = [pc EXCEPT ![t] = "done"]
    /\ req' = [req EXCEPT ![t] = [op |-> "update", id |-> id, name |-> name, email |-> email,
                                 page |-> 0, per_page |-> 0]]
    /\ resp' = [resp EXCEPT ![t] = [status |-> NOT_IMPLEMENTED, body |-> NoUser, list |-> NoList]]
    /\ UNCHANGED <<users, nextId, now, result, pool>>

\* GET /users?page=&per_page=: the query is decoded into a Pagination, with its
\* defaults; the handler returns at once, without a statement.
ListUsers(t, page, per_page) ==
    /\ pc[t] = "idle"
    /\ pc' = [pc EXCEPT ![t] = "done"]
    /\ req' = [req EXCEPT ![t] = [op |-> "list", id |-> 0, name |-> None, email |-> None,
                                 page |-> OrDefault(page, default_page),
                                 per_page |-> OrDefault(per_page, default_per_page)]]
    /\ resp' = [resp EXCEPT ![t] = [status |-> NOT_IMPLEMENTED, body |-> NoUser, list |-> NoList]]
    /\ UNCHANGED <<users, nextId, now, result, pool>>

\* GET /health/db: the handler is entered; health_check borrows a connection of the
\* pool for SELECT 1.
DbHealth(t) ==
    /\ pc[t] = "idle"
    /\ Borrow(t)
    /\ req' = [req EXCEPT ![t] = [op |-> "db_health", id |-> 0, name |-> None, email |-> None,
                                 page |-> 0, per_page |-> 0]]
    /\ UNCHANGED <<users, nextId, now, result, resp>>

\* GET /health: the handler returns its static answer, without touching the pool.
Health(t) ==
    /\ pc[t] = "idle"
    /\ pc' = [pc EXCEPT ![t] = "done"]
    /\ req' = [req EXCEPT ![t] = [op |-> "health", id |-> 0, name |-> None, email |-> None,
                                 page |-> 0, per_page |-> 0]]
    /\ resp' = [resp EXCEPT ![t] = [status |-> OK, body |-> NoUser, list |-> NoList]]
    /\ UNCHANGED <<users, nextId, now, result, pool>>

\* A connection became free while task t waited for one: t borrows it.
Acquire(t) ==
    /\ pc[t] = "waiting"
    /\ CanAcquire(pool)
    /\ pc' = [pc EXCEPT ![t] = "holding"]
    /\ pool' = Acquired(pool)
    /\ UNCHANGED <<users, nextId, now, req, result, resp>>

\* Task t waited for the whole acquire timeout with every connection borrowed: the
\* pool gives up with PoolTimedOut, no statement is sent, and the handler maps the
\* error to its response.
AcquireTimeout(t) ==
    /\ pc[t] = "waiting"
    /\ ~CanAcquire(pool)
    /\ result' = [result EXCEPT ![t] = ErrPoolTimedOut]
    /\ resp' = [resp EXCEPT ![t] =
          [status |-> StatusOf(req[t].op, ErrPoolTimedOut), body |-> NoUser, list |-> NoList]]
    /\ pc' = [pc EXCEPT ![t] = "done"]
    /\ UNCHANGED <<users, nextId, now, req, pool>>

\* create_user: the store runs the INSERT, the connection goes back to the pool, the
\* handler maps the outcome to its response.
ExecCreate(t) ==
    /\ pc[t] = "holding"
    /\ req[t].op = "create"
    /\ LET row == InsertStmt(req[t])
           r == IF UniqueViolation(row) THEN ErrUniqueViolation ELSE OkResult(1, row)
       IN /\ users' = IF r.ok THEN users \cup {row} ELSE users
          /\ nextId' = IF r.ok THEN nextId + 1 ELSE nextId
          /\ Reply(t, r)
    /\ UNCHANGED <<now, req>>

\* delete_user: the store runs the DELETE, the connection goes back to the pool, the
\* handler maps the outcome to its response.
ExecDelete(t) ==
    /\ pc[t] = "holding"
    /\ req[t].op = "delete"
    /\ LET gone == DeleteStmt(req[t].id)
       IN /\ users' = users \ gone
          /\ Reply(t, OkResult(Cardinality(gone), NoUser))
    /\ UNCHANGED <<nextId, now, req>>

\* db_health: the store answers SELECT 1, the connection goes back to the pool, the
\* handler maps the outcome to its response.
ExecHealth(t) ==
    /\ pc[t] = "holding"
    /\ req[t].op = "db_health"
    /\ Reply(t, OkResult(1, NoUser))
    /\ UNCHANGED <<users, nextId, now, req>>

\* The statement fails in the store or on the way to it: nothing is written, the
\* connection goes back to the pool, and the handler maps the error to its response.
StoreFails(t, e) ==
    /\ pc[t] = "holding"
    /\ Reply(t, e)
    /\ UNCHANGED <<users, nextId, now, req>>

\* The response is sent; the task is free for the next request.
Finish(t) ==
    /\ pc[t] = "done"
    /\ pc' = [pc EXCEPT ![t] = "idle"]
    /\ req' = [req EXCEPT ![t] = NoReq]
    /\ result' = [result EXCEPT ![t] = NoResult]
    /\ resp' = [resp EXCEPT ![t] = NoResp]
    /\ UNCHANGED <<users, nextId, now, pool>>

\* The store's clock advances.
Tick ==
    /\ now < MaxTime
    /\ now' = now + 1
    /\ UNCHANGED <<users, nextId, pc, req, result, resp, pool>>

Next ==
    \/ \E t \in Clients, n \in Names, e \in Emails : CreateUser(t, n, e)
    \/ \E t \in Clients, i \in Ids : DeleteUser(t, i)
    \/ \E t \in Clients, i \in Ids : GetUser(t, i)
    \/ \E t \in Clients, i \in Ids, n \in PatchNames, e \in PatchEmails : UpdateUser(t, i, n, e)
    \/ \E t \in Tasks : ExecCreate(t)
    \/ \E t \in Tasks : ExecDelete(t)
    \/ \E t \in Tasks : Finish(t)
    \/ Tick

\* The service with a store that answers every statement.
Spec == Init /\ [][Next]_vars

NextFault ==
    \/ Next
    \/ \E t \in Tasks, e \in {ErrDatabase, ErrOther} : StoreFails(t, e)

\* The service with a store whose statements may fail.
SpecFault == Init /\ [][NextFault]_vars

\* A store the service can have reached: empty, or holding one user.
SomeStores ==
    {{}} \cup {{[id |-> 1, name |-> n, email |-> e, created_at |-> 0, updated_at |-> 0]} :
                 n \in Names, e \in Emails}

\* Every task has entered create_user at once, each with a payload of its own and a
\* connection of its own.
InitRace ==
    /\ users \in SomeStores
    /\ nextId = Cardinality(users) + 1
    /\ now = 0
    /\ pc = [t \in Workers |-> IF t \in Tasks THEN "holding" ELSE "idle"]
    /\ \E payload \in [Tasks -> [op : {"create"}, id : {0}, name : Names, email : Emails,
                                  page : {0}, per_page : {0}]] :
          req = [t \in Workers |-> IF t \in Tasks THEN payload[t] ELSE NoReq]
    /\ result = [t \in Workers |-> NoResult]
    /\ resp = [t \in Workers |-> NoResp]
    /\ pool = [size |-> NumTasks, idle |-> 0]

NextRace ==
    \/ \E t \in Tasks : ExecCreate(t)
    \/ Tick

\* Concurrent creates and nothing else, in every order the store can run them.
SpecRace == InitRace /\ [][NextRace]_vars

\* Every route of create_app, over a store whose statements may fail.
NextService ==
    \/ \E t \in Clients, n \in Names, e \in Emails : CreateUser(t, n, e)
    \/ \E t \in Clients, i \in Ids : DeleteUser(t, i)
    \/ \E t \in Clients, i \in Ids : GetUser(t, i)
    \/ \E t \in Clients, i \in Ids, n \in PatchNames, e \in PatchEmails : UpdateUser(t, i, n, e)
    \/ \E t \in Clients, p \in QueryPages, k \in QueryPerPages : ListUsers(t, p, k)
    \/ \E t \in Clients : DbHealth(t)
    \/ \E t \in Clients : Health(t)
    \/ \E t \in Clients : ExecCreate(t)
    \/ \E t \in Clients : ExecDelete(t)
    \/ \E t \in Clients : ExecHealth(t)
    \/ \E t \in Clients, e \in {ErrDatabase, ErrOther} : StoreFails(t, e)
    \/ \E t \in Clients : Finish(t)

\* The whole service: user routes, listing and both health routes.
SpecService == Init /\ [][NextService]_vars

\* The requests that contend for the pool: health checks from every task, and one
\* user's create and delete from the first.
NextPool ==
    \/ \E t \in Workers : DbHealth(t)
    \/ \E t \in {1} : CreateUser(t, "Alice", "alice@example.com")
    \/ \E t \in {1} : DeleteUser(t, 1)
    \/ \E t \in Workers : Acquire(t)
    \/ \E t \in Workers : AcquireTimeout(t)
    \/ \E t \in Workers : ExecCreate(t)
    \/ \E t \in Workers : ExecDelete(t)
    \/ \E t \in Workers : ExecHealth(t)
    \/ \E t \in Workers : StoreFails(t, ErrOther)
    \/ \E t \in Workers : Finish(t)

\* More requests at once than the pool has connections, over a store whose statements
\* may fail.
SpecPool == Init /\ [][NextPool]_vars

\* The stores the service can have reached before a race of deletes: some users,
\* no identifier and no email twice.
RaceStores ==
    {S \in SUBSET [id : Ids, name : Names, email : Emails, created_at : {0}, updated_at : {0}] :
        /\ S # {}
        /\ \A u, v \in S : (u.id = v.id \/ u.email = v.email) => u = v}

\* Every task has entered delete_user at once, each for the identifier of a stored
\* user and with a connection of its own.
InitDeleteRace ==
    /\ users \in RaceStores
    /\ nextId = MaxIds + 1
    /\ now = 0
    /\ pc = [t \in Workers |-> IF t \in Tasks THEN "holding" ELSE "idle"]
    /\ \E target \in [Tasks -> {u.id : u \in users}] :
          req = [t \in Workers |->
                   IF t \in Tasks
                   THEN [op |-> "delete", id |-> target[t], name |-> None, email |-> None,
                         page |-> 0, per_page |-> 0]
                   ELSE NoReq]
    /\ result = [t \in Workers |-> NoResult]
    /\ resp = [t \in Workers |-> NoResp]
    /\ pool = [size |-> NumTasks, idle |-> 0]

NextDeleteRace ==
    \/ \E t \in Tasks : ExecDelete(t)

\* Concurrent deletes and nothing else, in every order the store can run them.
SpecDeleteRace == InitDeleteRace /\ [][NextDeleteRace]_vars

\* More queries at once than the pool has connections, each a round trip the store
\* answers; no waiter reaches its acquire timeout.
NextBurst ==
    \/ \E t \in Workers : DbHealth(t)
    \/ \E t \in Workers : Acquire(t)
    \/ \E t \in Workers : ExecHealth(t)
    \/ \E t \in Workers : Finish(t)

\* The runtime polls every task whose statement the store has answered, and the
\* pool serves its waiters in turn: none is passed over for ever.
FairBurst ==
    \A t \in Workers : WF_vars(ExecHealth(t)) /\ SF_vars(Acquire(t))

\* Concurrent queries over a store that answers them all before any acquire timeout.
SpecBurst == Init /\ [][NextBurst]_vars /\ FairBurst

\* ------------------------------------------------------------------ claims
\* The step in which task t's statement completes and its handler returns.
Returns(t, op) == pc[t] = "holding" /\ pc'[t] = "done" /\ req[t].op = op

\* A user with this email is stored.
EmailHeld(e) == \E u \in users : u.email = e

\* C1: in every reachable state, under any interleaving of create, update and delete
\* requests (and of store failures), no two stored users have the same email.
C1_UniqueEmail == \A u, v \in users : u.email = v.email => u = v

\* C1 witness: two users are stored and a further create was refused for its email.
C1_Witness ==
    /\ Cardinality(users) = 2
    /\ \E t \in Tasks : pc[t] = "done" /\ req[t].op = "create" /\ resp[t].status = CONFLICT

\* The racing creates that carry email e.
Racers(e) == {t \in Tasks : req[t].op = "create" /\ req[t].email = e}

\* A user with email e was stored before the racing creates began: it is stored and
\* is the row of none of their responses.
HeldBefore(e) == \E u \in users : u.email = e /\ \A t \in Tasks : resp[t].body # u

\* C2: when N >= 2 concurrent creates carry the same email e and the store held no
\* user with e, then once all of them have returned exactly one has 201 and every
\* other one has 409, in every order the store runs them.
C2_OneWinner ==
    \A e \in Emails :
        (/\ Cardinality(Racers(e)) >= 2
         /\ ~HeldBefore(e)
         /\ \A t \in Racers(e) : pc[t] = "done")
        => \E w \in Racers(e) :
              /\ resp[w].status = CREATED
              /\ \A t \in Racers(e) \ {w} : resp[t].status = CONFLICT

\* C2 witness: every task raced for one email that was free, and all have returned.
C2_Witness ==
    \E e \in Emails :
        /\ Racers(e) = Tasks
        /\ ~HeldBefore(e)
        /\ \A t \in Tasks : pc[t] = "done"

\* The identifiers the store has assigned so far, to users stored or deleted since.
EverAssigned == 1 .. (nextId - 1)

\* C3: a create whose email no stored user holds returns 201 and the stored user,
\* adds exactly that user to the store, with the request's name and email, an
\* identifier never assigned before and both timestamps at the current time.
C3_CreateSucceeds ==
    [][\A t \in Tasks :
          (Returns(t, "create") /\ ~EmailHeld(req[t].email))
          => /\ resp'[t].status = CREATED
             /\ resp'[t].body \notin users
             /\ users' = users \cup {resp'[t].body}
             /\ resp'[t].body.name = req[t].name
             /\ resp'[t].body.email = req[t].email
             /\ resp'[t].body.id \notin EverAssigned
             /\ resp'[t].body.id \in EverAssigned'
             /\ resp'[t].body.created_at = now
             /\ resp'[t].body.updated_at = now]_vars

\* C3 witness: a create returned 201 after an earlier user had been deleted and the
\* clock had advanced; its user is stored.
C3_Witness ==
    \E t \in Tasks :
        /\ pc[t] = "done" /\ req[t].op = "create" /\ resp[t].status = CREATED
        /\ resp[t].body \in users
        /\ resp[t].body.id > 1 /\ resp[t].body.created_at > 0
        /\ \E i \in EverAssigned : \A u \in users : u.id # i

\* C4: create answers 409 exactly when the store reported a uniqueness violation,
\* which it does only for an email a stored user holds; every other failure of the
\* statement is answered 500, and a failed create leaves the store as it was.
C4_ConflictOnlyOnUnique ==
    [][\A t \in Tasks :
          Returns(t, "create")
          => /\ resp'[t].status = CONFLICT <=> result'[t] = ErrUniqueViolation
             /\ result'[t] = ErrUniqueViolation => EmailHeld(req[t].email)
             /\ (~result'[t].ok /\ result'[t] # ErrUniqueViolation)
                    => resp'[t].status = INTERNAL_SERVER_ERROR
             /\ ~result'[t].ok => users' = users]_vars

\* C4 witness: one create was answered 409 and another one 500 after a database
\* error that was no uniqueness violation.
C4_Witness ==
    \E t, s \in Tasks :
        /\ pc[t] = "done" /\ req[t].op = "create" /\ resp[t].status = CONFLICT
        /\ pc[s] = "done" /\ req[s].op = "create" /\ result[s] = ErrDatabase
        /\ resp[s].status = INTERNAL_SERVER_ERROR

\* The step in which task t enters the handler of op and the handler returns at once.
ReturnsAtOnce(t, op) == pc[t] = "idle" /\ pc'[t] = "done" /\ req'[t].op = op

\* The stored users with identifier i.
Stored(i) == {u \in users : u.id = i}

\* C5: after a create returned user u, a get of u.id, with u not updated or deleted
\* since, returns 200 and a user with u's name and email and timestamps not earlier
\* than u's.
C5_RoundTrip ==
    [][\A t, s \in Tasks :
          (/\ ReturnsAtOnce(t, "get")
           /\ pc[s] = "done" /\ req[s].op = "create" /\ resp[s].status = CREATED
           /\ resp[s].body \in users
           /\ req'[t].id = resp[s].body.id)
          => /\ resp'[t].status = OK
             /\ resp'[t].body.name = resp[s].body.name
             /\ resp'[t].body.email = resp[s].body.email
             /\ resp'[t].body.created_at >= resp[s].body.created_at
             /\ resp'[t].body.updated_at >= resp[s].body.updated_at]_vars

\* C6: a get of an identifier no stored user has returns 404 and leaves the store
\* as it was.
C6_GetNotFound ==
    [][\A t \in Tasks :
          (ReturnsAtOnce(t, "get") /\ Stored(req'[t].id) = {})
          => resp'[t].status = NOT_FOUND /\ users' = users]_vars

\* C7: delete returns 204 exactly when its statement removed a row with the given
\* identifier, 404 exactly when the statement ran and affected no row, and 500 only
\* when the statement failed; it removes no other row.
C7_DeleteStatus ==
    [][\A t \in Tasks :
          Returns(t, "delete")
          => /\ resp'[t].status \in {NO_CONTENT, NOT_FOUND, INTERNAL_SERVER_ERROR}
             /\ resp'[t].status = NO_CONTENT
                    <=> (\E u \in users \ users' : u.id = req[t].id)
             /\ resp'[t].status = NOT_FOUND
                    <=> (result'[t].ok /\ result'[t].rows = 0 /\ users' = users)
             /\ resp'[t].status = INTERNAL_SERVER_ERROR => ~result'[t].ok
             /\ result'[t].ok => result'[t].rows = Cardinality(users \ users')
             /\ users' \subseteq users
             /\ \A u \in users \ users' : u.id = req[t].id]_vars

\* C7 witness: one delete returned 204 and another 404.
C7_Witness ==
    \E t, s \in Tasks :
        /\ pc[t] = "done" /\ req[t].op = "delete" /\ resp[t].status = NO_CONTENT
        /\ pc[s] = "done" /\ req[s].op = "delete" /\ resp[s].status = NOT_FOUND

\* Identifier i was assigned to a user that a delete has removed since.
Deleted(i) == i \in EverAssigned /\ Stored(i) = {}

\* C8: once delete(id) has succeeded, every later get(id) returns 404, every later
\* delete(id) returns 404, and the identifier stays deleted.
C8_DeleteFinality ==
    [][\A t \in Tasks :
          /\ (ReturnsAtOnce(t, "get") /\ Deleted(req'[t].id))
                => resp'[t].status = NOT_FOUND
          /\ (Returns(t, "delete") /\ Deleted(req[t].id))
                => resp'[t].status = NOT_FOUND
          /\ \A i \in Ids : Deleted(i) => Deleted(i)']_vars

\* The value a merge-patch leaves in a field: the request's when present, else the
\* stored one.
Patched(given, stored) == IF given # None THEN given ELSE stored

\* C9: an update of a stored user returns 200 and the user as stored afterwards,
\* each of name and email replaced when the request carries it and kept otherwise.
C9_MergePatch ==
    [][\A t \in Tasks : \A u \in users :
          (ReturnsAtOnce(t, "update") /\ u.id = req'[t].id)
          => /\ resp'[t].status = OK
             /\ resp'[t].body \in users'
             /\ resp'[t].body.id = u.id
             /\ resp'[t].body.name = Patched(req'[t].name, u.name)
             /\ resp'[t].body.email = Patched(req'[t].email, u.email)]_vars

\* C10: an update that finds its user sets the user's last-modified timestamp to
\* the current time and keeps its identifier and creation timestamp; when the
\* request carries neither name nor email it keeps name and email too.
C10_UpdateTouches ==
    [][\A t \in Tasks : \A u \in users :
          (ReturnsAtOnce(t, "update") /\ u.id = req'[t].id)
          => \E v \in users' :
                /\ v.id = u.id
                /\ v.created_at = u.created_at
                /\ v.updated_at = now
                /\ (req'[t].name = None /\ req'[t].email = None)
                      => (v.name = u.name /\ v.email = u.email)]_vars

\* C11: an update of an identifier no stored user has returns 404 and leaves the
\* store as it was.
C11_UpdateNotFound ==
    [][\A t \in Tasks :
          (ReturnsAtOnce(t, "update") /\ Stored(req'[t].id) = {})
          => resp'[t].status = NOT_FOUND /\ users' = users]_vars

\* list_users, pagination math: the rows skipped before the page.
Offset(page, per_page) == (page - 1) * per_page

\* list_users, pagination math: the pages a total fills, in integer arithmetic.
TotalPages(total, per_page) == (total + per_page - 1) \div per_page

\* C12: every list with a page size of at least one returns the number of stored
\* users as total, and (total + page size - 1) / page size as total_pages.
C12_ListTotals ==
    [][\A t \in Tasks :
          (ReturnsAtOnce(t, "list") /\ req'[t].per_page >= 1)
          => /\ resp'[t].list.total = Cardinality(users)
             /\ resp'[t].list.total_pages = TotalPages(Cardinality(users), req'[t].per_page)]_vars

\* C13: a list whose offset is at or beyond the number of stored users succeeds with
\* no users and the total and total_pages of the store.
C13_OutOfRangePage ==
    [][\A t \in Tasks :
          (/\ ReturnsAtOnce(t, "list")
           /\ Offset(req'[t].page, req'[t].per_page) >= Cardinality(users))
          => /\ resp'[t].status = OK
             /\ resp'[t].list.users = <<>>
             /\ resp'[t].list.total = Cardinality(users)
             /\ resp'[t].list.total_pages = TotalPages(Cardinality(users), req'[t].per_page)]_vars

\* SELECT * FROM users ORDER BY created_at DESC: the orders the store may return
\* the stored users in.
NewestFirst ==
    {s \in [1 .. Cardinality(users) -> users] :
        /\ \A i, j \in DOMAIN s : i # j => s[i] # s[j]
        /\ \A i, j \in DOMAIN s : i < j => s[i].created_at >= s[j].created_at}

\* LIMIT per_page OFFSET offset: the rows of s after the first offset, per_page of
\* them at most.
Window(s, offset, per_page) ==
    SubSeq(s, offset + 1, IF offset + per_page < Len(s) THEN offset + per_page ELSE Len(s))

\* C14: a list returns exactly the users at positions offset + 1 .. offset + page
\* size of the stored users ordered by creation time descending: at most page size
\* users, none twice.
C14_ListWindow ==
    [][\A t \in Tasks :
          ReturnsAtOnce(t, "list")
          => /\ \E s \in NewestFirst :
                   resp'[t].list.users
                     = Window(s, Offset(req'[t].page, req'[t].per_page), req'[t].per_page)
             /\ Len(resp'[t].list.users) <= req'[t].per_page
             /\ \A i, j \in DOMAIN resp'[t].list.users :
                   i # j => resp'[t].list.users[i] # resp'[t].list.users[j]]_vars

\* C15: a list returns 200 and the page and page size it used, which are 1 and 10
\* when the request gives none.
C15_ListEcho ==
    [][\A t \in Tasks :
          ReturnsAtOnce(t, "list")
          => /\ resp'[t].status = OK
             /\ resp'[t].list.page = req'[t].page
             /\ resp'[t].list.per_page = req'[t].per_page]_vars

\* C16: in every reachable state the pool's statistics (total, idle, max) have
\* max > 0, total <= max and idle <= total, max is the 5 of its construction, and
\* no more than max connections are in use.
C16_PoolStatistics ==
    LET size == get_database_statistics[1]
        idle == get_database_statistics[2]
        max == get_database_statistics[3]
    IN /\ max > 0
       /\ size <= max
       /\ idle <= size
       /\ idle >= 0
       /\ max = 5
       /\ InUse <= max

\* C16 witness: every connection the pool may open is in use and a further request
\* waits for one.
C16_Witness ==
    /\ pool.size = MaxConnections
    /\ InUse = MaxConnections
    /\ \E t \in Workers : pc[t] = "waiting"

\* C17: a request that waits out the acquire timeout does so with all max
\* connections in use and fails with the pool's timeout error, which its handler
\* returns as a server error; neither the acquire nor the statement is tried again,
\* and the store is left as it was.
C17_PoolExhausted ==
    [][\A t \in Workers :
          /\ (pc[t] = "waiting" /\ pc'[t] = "done")
                => /\ InUse = MaxConnections
                   /\ result'[t] = ErrPoolTimedOut
                   /\ resp'[t].status \in {INTERNAL_SERVER_ERROR, SERVICE_UNAVAILABLE}
                   /\ users' = users
                   /\ pool' = pool
          /\ pc[t] = "done" => pc'[t] \in {"done", "idle"}]_vars

\* C17 witness: a create has timed out waiting for a connection and returned 500.
C17_Witness ==
    \E t \in Workers :
        /\ pc[t] = "done"
        /\ req[t].op = "create"
        /\ result[t] = ErrPoolTimedOut
        /\ resp[t].status = INTERNAL_SERVER_ERROR

\* C18: db_health returns 200 exactly when its round-trip query succeeded and 503
\* on any failure of it; no other route returns 503; health returns 200 whatever
\* the store does.
C18_HealthStatus ==
    \A t \in Workers :
        pc[t] = "done"
        => /\ req[t].op = "db_health"
                => /\ resp[t].status = OK <=> result[t].ok
                   /\ resp[t].status = SERVICE_UNAVAILABLE <=> ~result[t].ok
           /\ req[t].op # "db_health" => resp[t].status # SERVICE_UNAVAILABLE
           /\ req[t].op = "health" => resp[t].status = OK

\* C18 witness: a store health check has failed with 503 while a liveness check
\* returned 200.
C18_Witness ==
    \E t, s \in Workers :
        /\ pc[t] = "done" /\ req[t].op = "db_health"
        /\ ~result[t].ok /\ resp[t].status = SERVICE_UNAVAILABLE
        /\ pc[s] = "done" /\ req[s].op = "health" /\ resp[s].status = OK

\* C19: no connection is held by two requests at once: the connections of the pool
\* are the idle ones and one for each request between its acquire and its release,
\* after every acquire and every release.
C19_NoSharedConnection ==
    /\ pool.idle + InUse = pool.size
    /\ pool.idle >= 0

\* C19 witness: two requests hold a connection each while a third connection is
\* idle.
C19_Witness ==
    /\ InUse = 2
    /\ pool.idle = 1
    /\ pool.size = 3

\* No request is waiting for a connection or holding one.
Quiet == \A t \in Workers : pc[t] \in {"idle", "done"}

InFlight(t) == pc[t] \in {"waiting", "holding"}

\* C21: with more queries in flight than the pool has connections, and every query
\* that holds a connection answered and released before a waiter's acquire timeout,
\* every query eventually gets a connection and succeeds: none fails, none waits for
\* ever.
C21_AllServed ==
    /\ \A t \in Workers : InFlight(t) ~> (pc[t] = "done" /\ result[t].ok)
    /\ [](\A t \in Workers : pc[t] = "done" => result[t].ok /\ resp[t].status = OK)

\* C21 witness: one query more than the pool has connections is in flight: every
\* connection is held and the last query waits.
C21_Witness ==
    /\ \A t \in Workers : InFlight(t) /\ req[t].op = "db_health"
    /\ Cardinality({t \in Workers : pc[t] = "waiting"}) = Cardinality(Workers) - MaxConnections
    /\ pool.idle = 0

\* The tasks whose delete names identifier i.
DeleteRacers(i) == {t \in Tasks : req[t].op = "delete" /\ req[t].id = i}

\* C22: when N >= 2 concurrent deletes name the same stored identifier, then once
\* all of them have returned exactly one has 204 and every other one has 404, in
\* every order the store runs them; each status follows the affected-row count of
\* the task's own statement.
C22_OneDeleteWins ==
    \A i \in Ids :
        (Cardinality(DeleteRacers(i)) >= 2 /\ \A t \in DeleteRacers(i) : pc[t] = "done")
        => /\ Cardinality({t \in DeleteRacers(i) : resp[t].status = NO_CONTENT}) = 1
           /\ \A t \in DeleteRacers(i) :
                 /\ resp[t].status \in {NO_CONTENT, NOT_FOUND}
                 /\ resp[t].status = NO_CONTENT <=> result[t].rows = 1
                 /\ resp[t].status = NOT_FOUND <=> result[t].rows = 0

\* C22 witness: every task deleted the same stored identifier; one has 204 and the
\* others have 404.
C22_Witness ==
    \E i \in Ids :
        /\ DeleteRacers(i) = Tasks
        /\ \A t \in Tasks : pc[t] = "done"
        /\ \E w \in Tasks :
              /\ resp[w].status = NO_CONTENT
              /\ \A t \in Tasks \ {w} : resp[t].status = NOT_FOUND

\* Task t's handler returns in this step with an error status.
ReturnsError(t) == pc[t] # "done" /\ pc'[t] = "done" /\ resp'[t].status >= 400

\* C23: a request that ends in an error leaves the stored users exactly as they
\* were: a create answered 409 or 500 adds and alters none, a delete answered 404 or
\* 500 removes none; a delete answered 204 removes the user with its identifier and
\* no other.
C23_ErrorFrame ==
    [][\A t \in Tasks :
          /\ ReturnsError(t) => users' = users
          /\ (Returns(t, "create") /\ resp'[t].status \in {CONFLICT, INTERNAL_SERVER_ERROR})
                => users' = users
          /\ (Returns(t, "delete") /\ resp'[t].status \in {NOT_FOUND, INTERNAL_SERVER_ERROR})
                => users' = users
          /\ (Returns(t, "delete") /\ resp'[t].status = NO_CONTENT)
                => users' = {u \in users : u.id # req[t].id}]_vars

\* C23 witness: a delete has removed one of two users and left the other stored,
\* after a create was refused for its email.
C23_Witness ==
    \E t, s \in Tasks :
        /\ pc[t] = "done" /\ req[t].op = "delete" /\ resp[t].status = NO_CONTENT
        /\ pc[s] = "done" /\ req[s].op = "create"
        /\ resp[s].status \in {CONFLICT, INTERNAL_SERVER_ERROR}
        /\ \E u \in users : u.id # req[t].id

====
